---------------------------- MODULE Spec2Model ----------------------------
(***************************************************************************)
(* Model of sl-creation-utils: the morph-target rigging add-on             *)
(* (blender_sl_morph_target_rigging.py), the bake-to-weights add-on        *)
(* (blender_baketoweights.py) and the depth-map converter                  *)
(* (convert_sl_snapshot_depth.py).                                         *)
(*                                                                         *)
(* Python floats are modelled as exact rationals <<numerator, denominator>>*)
(* in lowest terms with a positive denominator, so that equality of        *)
(* values is equality of pairs.  Python lists are 0-based and TLA+         *)
(* sequences 1-based: index i of the source is index i+1 here.             *)
(***************************************************************************)
EXTENDS Integers, Sequences, FiniteSets, TLC

VARIABLES
    \* vector_to_weights called on its own
    v_coord, v_weights,
    \* MorphTargetToSLWeights.execute / apply_pos_offset_weights
    selected, source_co, target_co, loops, vertex_groups, group_weights, writes,
    m_pc, m_idx, m_result, m_report,
    \* to_bands called on its own
    b_val, b_num, b_out,
    \* pick_color called on its own
    p_uv, p_width, p_height, p_radius, p_circle, p_slice, p_out,
    \* BakeToWeightsOp.execute on one selected object
    wm, img_size, obj_kind, uv_loops, obj_groups, obj_active, mask, mask_sum,
    vert_colors, weights, bake_writes, k_pc, k_idx, k_result, k_report,
    \* convert_sl_snapshot_depth.py: main and convert_to_16bit_mono
    range_lower, range_upper, img_data, lower_bound, upper_bound, multiplier,
    bw_data, converted, d_pc, d_idx, d_error,
    \* SLMorphTargetAnimation.execute
    orig_selected_objects, mesh_data, share_materials, to_weight, weighted,
    linked, offset_z, iterations, joined, a_pc, a_result, a_report

vecVars   == <<v_coord, v_weights>>
morphVars == <<selected, source_co, target_co, loops, vertex_groups, group_weights,
               writes, m_pc, m_idx, m_result, m_report>>
bandVars  == <<b_val, b_num, b_out>>
pickVars  == <<p_uv, p_width, p_height, p_radius, p_circle, p_slice, p_out>>
bakeVars  == <<wm, img_size, obj_kind, uv_loops, obj_groups, obj_active, mask,
               mask_sum, vert_colors, weights, bake_writes, k_pc, k_idx, k_result, k_report>>
depthVars == <<range_lower, range_upper, img_data, lower_bound, upper_bound,
               multiplier, bw_data, converted, d_pc, d_idx, d_error>>
animVars  == <<orig_selected_objects, mesh_data, share_materials, to_weight,
               weighted, linked, offset_z, iterations, joined, a_pc, a_result, a_report>>
vars == <<vecVars, morphVars, bandVars, pickVars, bakeVars, depthVars, animVars>>

-----------------------------------------------------------------------------
(* Bounds of the model *)

\* lattice resolution: coordinates are multiples of 1/UNIT metres
UNIT == 2
\* vector_to_weights is applied to every coord in (-CoordMax..CoordMax)^3 / UNIT
CoordMax == 10
\* meshes of the morph pass: vertices, loops, and the magnitudes (in 1/UNIT m)
\* of the vertex positions, each on one axis
NumVerts == 2
MaxLoops == 3
PosMax == 5
TgtMax == 10
\* objects selected for SLMorphTargetAnimation: 0..MaxSelected
MaxSelected == 6
\* to_bands is applied to every value k/ValDen, k in -ValDen..2*ValDen, and
\* every number of bands in 1..MaxBands
ValDen == 6
MaxBands == 4
\* pick_color is applied to images of 1..MaxDim by 1..MaxDim pixels, sample
\* radii 1..MaxRadius, and UVs k/UvDen, k in -UvMax..UvMax, on both axes
MaxDim == 5
MaxRadius == 3
UvDen == 4
UvMax == 6
\* the bake: an image of BakeDim by BakeDim pixels, a mesh of up to BakeLoops
\* loops, up to BakeBands weight bands
BakeDim == 4
BakeLoops == 3
BakeBands == 2
\* the depth map: images of 1..MaxPixels pixels, range bounds k/FracDen
MaxPixels == 2
FracDen == 4

-----------------------------------------------------------------------------
(* Float arithmetic, exact *)

Abs(i) == IF i < 0 THEN -i ELSE i

RECURSIVE GCD(_, _)
GCD(a, b) == IF b = 0 THEN a ELSE GCD(b, a % b)

Rat(n, d) ==
    LET s == IF d < 0 THEN -1 ELSE 1
        g == GCD(Abs(n), Abs(d))
    IN  <<(s * n) \div g, (s * d) \div g>>

Zero == <<0, 1>>
One  == <<1, 1>>
FromInt(i) == <<i, 1>>

RAdd(p, q) == Rat(p[1] * q[2] + q[1] * p[2], p[2] * q[2])
RSub(p, q) == Rat(p[1] * q[2] - q[1] * p[2], p[2] * q[2])
RMul(p, q) == Rat(p[1] * q[1], p[2] * q[2])
RDiv(p, q) == Rat(p[1] * q[2], p[2] * q[1])
RAbs(p)    == <<Abs(p[1]), p[2]>>
RLt(p, q)  == p[1] * q[2] < q[1] * p[2]
RLe(p, q)  == p[1] * q[2] <= q[1] * p[2]
\* Python's min(a, b) and max(a, b): the first argument unless the second beats it
RMin(p, q) == IF RLt(q, p) THEN q ELSE p
RMax(p, q) == IF RLt(p, q) THEN q ELSE p
\* Python's int(): truncation toward zero
RInt(p)    == IF p[1] >= 0 THEN p[1] \div p[2] ELSE -((-p[1]) \div p[2])
\* mathematical floor
RFloor(p)  == p[1] \div p[2]

\* Python's sum() over a list of floats
RECURSIVE RSum(_)
RSum(s) ==
    IF s = <<>> THEN Zero
    ELSE IF Len(s) = 1 THEN RAdd(Zero, s[1])
    ELSE LET h == Len(s) \div 2
         IN  RAdd(RSum(SubSeq(s, 1, h)), RSum(SubSeq(s, h + 1, Len(s))))

-----------------------------------------------------------------------------
(* blender_sl_morph_target_rigging.py *)

VERTEX_GROUP_NAMES ==
    <<"mHipLeft", "mHipRight", "mHindLimb1Left", "mHindLimb1Right",
      "mTail1", "mGroin", "mPelvis">>

MAX_MOVEMENT == 5

\* sum([abs(x) for x in (coord.x, coord.y, coord.z)])
vec_motion_all_axes(coord) ==
    RSum(<<RAbs(coord[1]), RAbs(coord[2]), RAbs(coord[3])>>)

\* vector_to_weights without the abs() calls
vector_to_weights_no_abs(coord) ==
    LET n     == Len(VERTEX_GROUP_NAMES)
        w0    == [i \in 1..n |-> Zero]
        x_idx == IF RLt(coord[1], Zero) THEN 1 + 1 ELSE 0 + 1
        y_idx == IF RLt(coord[2], Zero) THEN 3 + 1 ELSE 2 + 1
        z_idx == IF RLt(coord[3], Zero) THEN 5 + 1 ELSE 4 + 1
        w1    == [w0 EXCEPT ![x_idx] = RDiv(coord[1], FromInt(MAX_MOVEMENT))]
        w2    == [w1 EXCEPT ![y_idx] = RDiv(coord[2], FromInt(MAX_MOVEMENT))]
        w3    == [w2 EXCEPT ![z_idx] = RDiv(coord[3], FromInt(MAX_MOVEMENT))]
    IN  [w3 EXCEPT ![n] = RSub(One, RSum(w3))]

\* vector_to_weights with the sign tests inverted
vector_to_weights_swapped(coord) ==
    LET n     == Len(VERTEX_GROUP_NAMES)
        w0    == [i \in 1..n |-> Zero]
        x_idx == IF RLt(Zero, coord[1]) THEN 1 + 1 ELSE 0 + 1
        y_idx == IF RLt(Zero, coord[2]) THEN 3 + 1 ELSE 2 + 1
        z_idx == IF RLt(Zero, coord[3]) THEN 5 + 1 ELSE 4 + 1
        w1    == [w0 EXCEPT ![x_idx] = RDiv(RAbs(coord[1]), FromInt(MAX_MOVEMENT))]
        w2    == [w1 EXCEPT ![y_idx] = RDiv(RAbs(coord[2]), FromInt(MAX_MOVEMENT))]
        w3    == [w2 EXCEPT ![z_idx] = RDiv(RAbs(coord[3]), FromInt(MAX_MOVEMENT))]
    IN  [w3 EXCEPT ![n] = RSub(One, RSum(w3))]

\* vector_to_weights with z_idx starting at 2, as y_idx does
vector_to_weights_z_idx(coord) ==
    LET n     == Len(VERTEX_GROUP_NAMES)
        w0    == [i \in 1..n |-> Zero]
        x_idx == IF RLt(coord[1], Zero) THEN 1 + 1 ELSE 0 + 1
        y_idx == IF RLt(coord[2], Zero) THEN 3 + 1 ELSE 2 + 1
        z_idx == IF RLt(coord[3], Zero) THEN 5 + 1 ELSE 2 + 1
        w1    == [w0 EXCEPT ![x_idx] = RDiv(RAbs(coord[1]), FromInt(MAX_MOVEMENT))]
        w2    == [w1 EXCEPT ![y_idx] = RDiv(RAbs(coord[2]), FromInt(MAX_MOVEMENT))]
        w3    == [w2 EXCEPT ![z_idx] = RDiv(RAbs(coord[3]), FromInt(MAX_MOVEMENT))]
    IN  [w3 EXCEPT ![n] = RSub(One, RSum(w3))]

vector_to_weights(coord) ==
    LET n     == Len(VERTEX_GROUP_NAMES)
        w0    == [i \in 1..n |-> Zero]
        x_idx == IF RLt(coord[1], Zero) THEN 1 + 1 ELSE 0 + 1
        y_idx == IF RLt(coord[2], Zero) THEN 3 + 1 ELSE 2 + 1
        z_idx == IF RLt(coord[3], Zero) THEN 5 + 1 ELSE 4 + 1
        w1    == [w0 EXCEPT ![x_idx] = RDiv(RAbs(coord[1]), FromInt(MAX_MOVEMENT))]
        w2    == [w1 EXCEPT ![y_idx] = RDiv(RAbs(coord[2]), FromInt(MAX_MOVEMENT))]
        w3    == [w2 EXCEPT ![z_idx] = RDiv(RAbs(coord[3]), FromInt(MAX_MOVEMENT))]
    IN  [w3 EXCEPT ![n] = RSub(One, RSum(w3))]

-----------------------------------------------------------------------------
(* vector_to_weights applied to every lattice vector *)

Lattice(max) == {Rat(k, UNIT) : k \in -max..max}

VecIdle == v_coord = <<>> /\ v_weights = <<>>

InitVector ==
    /\ v_coord \in Lattice(CoordMax) \X Lattice(CoordMax) \X Lattice(CoordMax)
    /\ v_weights = <<>>

CallVectorToWeights ==
    /\ v_coord # <<>>
    /\ v_weights = <<>>
    /\ v_weights' = vector_to_weights(v_coord)
    /\ UNCHANGED <<v_coord, morphVars, bandVars, pickVars, bakeVars, depthVars, animVars>>

-----------------------------------------------------------------------------
(* MorphTargetToSLWeights.execute and apply_pos_offset_weights *)

None == <<>>

\* a - b on mathutils.Vector
VecSub(a, b) == <<RSub(a[1], b[1]), RSub(a[2], b[2]), RSub(a[3], b[3])>>

Vec(x, y, z) == <<Rat(x, UNIT), Rat(y, UNIT), Rat(z, UNIT)>>

\* a vertex of the source mesh and the same vertex of the target mesh: the
\* two positions are equal, differ on one axis in either direction, differ on
\* two axes by MAX_MOVEMENT in total (for PosMax/UNIT = 2.5), differ by
\* TgtMax/UNIT on one axis, or differ by more than MAX_MOVEMENT
VertexPairs ==
    {<<Vec(0, 0, 0),       Vec(0, 0, 0)>>,
     <<Vec(PosMax, 0, 0),  Vec(0, 0, 0)>>,
     <<Vec(0, 0, 0),       Vec(PosMax, 0, 0)>>,
     <<Vec(0, -PosMax, 0), Vec(PosMax, 0, 0)>>,
     <<Vec(0, 0, 0),       Vec(0, 0, -TgtMax)>>,
     <<Vec(PosMax, 0, 0),  Vec(-TgtMax, 0, 0)>>}

SeqsUpTo(S, n) == UNION {[1..k -> S] : k \in 0..n}

\* names a vertex group of the target can carry
GroupNames == {VERTEX_GROUP_NAMES[i] : i \in 1..Len(VERTEX_GROUP_NAMES)} \cup {"Group"}

\* the vertex groups the target object has before the operator runs
ExistingGroups == {<<>>, <<"mPelvis", "Group">>}

MorphIdle ==
    /\ selected = 0 /\ source_co = <<>> /\ target_co = <<>> /\ loops = <<>>
    /\ vertex_groups = <<>> /\ group_weights = <<>> /\ writes = <<>>
    /\ m_pc = "idle" /\ m_idx = 0 /\ m_result = "NONE" /\ m_report = ""

InitMorph ==
    /\ \/ /\ selected = 2
          /\ \E pairs \in [1..NumVerts -> VertexPairs] :
                /\ source_co = [v \in 1..NumVerts |-> pairs[v][1]]
                /\ target_co = [v \in 1..NumVerts |-> pairs[v][2]]
          /\ loops \in SeqsUpTo(1..NumVerts, MaxLoops)
       \/ \* not two objects selected, or a source with another vertex count
          /\ \/ selected \in {1, 3} /\ source_co = [v \in 1..NumVerts |-> Vec(0, 0, 0)]
             \/ selected = 2 /\ source_co = [v \in 1..(NumVerts - 1) |-> Vec(0, 0, 0)]
          /\ target_co = [v \in 1..NumVerts |-> Vec(0, 0, 0)]
          /\ loops \in SeqsUpTo(1..NumVerts, 1)
    /\ vertex_groups \in ExistingGroups
    /\ group_weights = [g \in GroupNames |-> [v \in 1..NumVerts |-> None]]
    /\ writes = <<>>
    /\ m_pc = "start" /\ m_idx = 0 /\ m_result = "NONE" /\ m_report = ""

\* validate_object_set: same number of verts in each
validate_object_set(counts) == Cardinality(counts) = 1

\* "Get or create the vertex groups we need": the groups of the object after
\* the lookup loop, a missing name being added at the end
RECURSIVE get_or_create(_, _)
get_or_create(vgs, k) ==
    IF k = 0 THEN vgs
    ELSE LET before == get_or_create(vgs, k - 1)
             name   == VERTEX_GROUP_NAMES[k]
         IN  IF \E i \in 1..Len(before) : before[i] = name
             THEN before
             ELSE Append(before, name)

\* pos_diff with the operands exchanged: target - source
pos_diff_reversed(src, tgt, vi) == VecSub(tgt[vi], src[vi])

\* diff = source_obj.data.vertices[vi].co - target_obj.data.vertices[vi].co
pos_diff(src, tgt, vi) == VecSub(src[vi], tgt[vi])

\* if total_movement > MAX_MOVEMENT: raise WeightException
movement_too_great(total_movement) == RLt(FromInt(MAX_MOVEMENT), total_movement)

\* loop_writes with the budget test after the vertex_group.add calls
loop_writes_then_test(vi, diff) ==
    LET w == vector_to_weights(diff)
    IN  [k \in 1..Len(VERTEX_GROUP_NAMES) |->
            [group |-> VERTEX_GROUP_NAMES[k], vi |-> vi, weight |-> w[k]]]

\* the vertex_group.add([vi], group_weight, 'REPLACE') calls of one loop
\* iteration, in order; none when the iteration raises
loop_writes(vi, diff) ==
    IF movement_too_great(vec_motion_all_axes(diff))
    THEN <<>>
    ELSE LET w == vector_to_weights(diff)
         IN  [k \in 1..Len(VERTEX_GROUP_NAMES) |->
                 [group |-> VERTEX_GROUP_NAMES[k], vi |-> vi, weight |-> w[k]]]

\* the vertex_group.add(..., 'REPLACE') calls ws applied in order to the
\* weights gw: the weight of a vertex in a group is the one of the last call
\* for that group and vertex, or the weight it had
apply_writes(gw, ws) ==
    [g \in DOMAIN gw |-> [v \in DOMAIN gw[g] |->
        LET calls == {n \in 1..Len(ws) : ws[n].group = g /\ ws[n].vi = v}
        IN  IF calls = {} THEN gw[g][v]
            ELSE ws[CHOOSE n \in calls : \A m \in calls : m <= n].weight]]

MorphTargetToSLWeights_execute ==
    /\ m_pc = "start"
    /\ IF selected # 2
       THEN /\ m_report' = "Must have exactly two objects selected"
            /\ m_result' = "CANCELLED"
            /\ m_pc' = "done"
            /\ UNCHANGED <<vertex_groups, m_idx>>
       ELSE IF ~validate_object_set({Len(source_co), Len(target_co)})
       THEN /\ m_report' = "Vertex count mismatch between objects"
            /\ m_result' = "CANCELLED"
            /\ m_pc' = "done"
            /\ UNCHANGED <<vertex_groups, m_idx>>
       ELSE \* apply_pos_offset_weights up to the loop over the mesh loops
            /\ vertex_groups' = get_or_create(vertex_groups, Len(VERTEX_GROUP_NAMES))
            /\ m_idx' = 1
            /\ m_pc' = "loop"
            /\ UNCHANGED <<m_report, m_result>>
    /\ UNCHANGED <<selected, source_co, target_co, loops, group_weights, writes, vecVars, bandVars, pickVars, bakeVars, depthVars, animVars>>

\* one iteration of "for loop in target_obj.data.loops"
apply_pos_offset_weights_loop ==
    /\ m_pc = "loop"
    /\ m_idx <= Len(loops)
    /\ LET vi   == loops[m_idx]
           diff == pos_diff(source_co, target_co, vi)
       IN  IF movement_too_great(vec_motion_all_axes(diff))
           THEN \* WeightException, caught by execute
                /\ m_report' = "Vertex movement too great!"
                /\ m_result' = "CANCELLED"
                /\ m_pc' = "done"
                /\ UNCHANGED m_idx
           ELSE /\ m_idx' = m_idx + 1
                /\ UNCHANGED <<m_report, m_result, m_pc>>
    /\ LET vi == loops[m_idx]
           ws == loop_writes(vi, pos_diff(source_co, target_co, vi))
       IN  /\ writes' = writes \o ws
           /\ group_weights' = apply_writes(group_weights, ws)
    /\ UNCHANGED <<selected, source_co, target_co, loops, vertex_groups, vecVars, bandVars, pickVars, bakeVars, depthVars, animVars>>

\* the loop is over: mode_set calls, view_layer.update, return {'FINISHED'}
apply_pos_offset_weights_end ==
    /\ m_pc = "loop"
    /\ m_idx > Len(loops)
    /\ m_result' = "FINISHED"
    /\ m_pc' = "done"
    /\ UNCHANGED <<selected, source_co, target_co, loops, vertex_groups,
                   group_weights, writes, m_idx, m_report, vecVars, bandVars, pickVars, bakeVars, depthVars, animVars>>

-----------------------------------------------------------------------------
(* blender_baketoweights.py: to_bands *)

\* to_bands without "f_val *= num_bands - 1"
to_bands_unscaled(f_val, num_bands) ==
    IF num_bands = 1 THEN <<f_val>>
    ELSE [k \in 1..num_bands |->
             RSub(One, RMin(One, RMax(Zero, RAbs(RSub(f_val, FromInt(k - 1))))))]

\* to_bands with the band centres one too high: abs(f_val - (i + 1))
to_bands_off_by_one(f_val, num_bands) ==
    IF num_bands = 1 THEN <<f_val>>
    ELSE LET f == RMul(f_val, FromInt(num_bands - 1))
         IN  [k \in 1..num_bands |->
                 RSub(One, RMin(One, RMax(Zero, RAbs(RSub(f, FromInt(k))))))]

\* entry k of the result is vals[k - 1] of the source, i = k - 1
to_bands(f_val, num_bands) ==
    IF num_bands = 1 THEN <<f_val>>
    ELSE LET f == RMul(f_val, FromInt(num_bands - 1))
         IN  [k \in 1..num_bands |->
                 RSub(One, RMin(One, RMax(Zero, RAbs(RSub(f, FromInt(k - 1))))))]

BandIdle == b_val = <<>> /\ b_num = 0 /\ b_out = <<>>

InitBands ==
    /\ b_val \in {Rat(k, ValDen) : k \in (-ValDen)..(2 * ValDen)}
    /\ b_num \in 1..MaxBands
    /\ b_out = <<>>

CallToBands ==
    /\ b_num > 0
    /\ b_out = <<>>
    /\ b_out' = to_bands(b_val, b_num)
    /\ UNCHANGED <<b_val, b_num, vecVars, morphVars, pickVars, bakeVars, depthVars, animVars>>

-----------------------------------------------------------------------------
(* blender_baketoweights.py: the image, the sample mask and pick_color *)

Min(a, b) == IF a < b THEN a ELSE b

\* s[a:b] of Python, 0 <= a <= b: cut at the end of s
Slice(s, a, b) == SubSeq(s, a + 1, Min(b, Len(s)))

Reverse(s) == [i \in 1..Len(s) |-> s[Len(s) + 1 - i]]

\* np.array(img.pixels).reshape((img_height, img_width, 4)) of an image whose
\* pixels differ from one another: R numbers the pixel, G its row, B its column
ImagePixels(w, h) ==
    [row \in 1..h |-> [col \in 1..w |->
        <<Rat((row - 1) * w + (col - 1), w * h), Rat(row - 1, h), Rat(col - 1, w), One>>]]

\* overdraw with r rows and r columns appended in the place of 2r
overdraw_radius(pixels, r) ==
    LET rows == pixels \o Slice(pixels, 0, r)
    IN  [i \in 1..Len(rows) |-> rows[i] \o Slice(rows[i], 0, r)]

\* "Overdraw pixels": the first 2r rows appended below, then the first 2r
\* columns appended to the right
overdraw(pixels, r) ==
    LET rows == pixels \o Slice(pixels, 0, 2 * r)
    IN  [i \in 1..Len(rows) |-> rows[i] \o Slice(rows[i], 0, 2 * r)]

\* d - 1 > img_width or d - 1 > img_height
radius_too_large(r, w, h) == (2 * r - 1) - 1 > w \/ (2 * r - 1) - 1 > h

\* the quarter piece: np.fromfunction(i**2 + j**2), the two threshold
\* assignments, then mask_2d[0] = 1
\* mask_quarter with the threshold r**2 in the place of r**2 - r
mask_quarter_r2(r) ==
    [i \in 1..r |-> [j \in 1..r |->
        LET v  == (i - 1) * (i - 1) + (j - 1) * (j - 1)
            v1 == IF v >= r * r THEN 0 ELSE v
            v2 == IF v1 > 1 THEN 1 ELSE v1
        IN  IF i = 1 THEN 1 ELSE v2]]

mask_quarter(r) ==
    [i \in 1..r |-> [j \in 1..r |->
        LET v  == (i - 1) * (i - 1) + (j - 1) * (j - 1)
            v1 == IF v >= r * r - r THEN 0 ELSE v
            v2 == IF v1 > 1 THEN 1 ELSE v1
        IN  IF i = 1 THEN 1 ELSE v2]]

\* np.rot90(m, -2), then the two concatenations with fliplr and flipud
circle_mask(r) ==
    LET q    == mask_quarter(r)
        rot  == [i \in 1..r |-> [j \in 1..r |-> q[r + 1 - i][r + 1 - j]]]
        wide == [i \in 1..r |-> rot[i] \o Reverse(Slice(rot[i], 0, r - 1))]
    IN  wide \o Reverse(Slice(wide, 0, r - 1))

square_mask(r) == [i \in 1..(2 * r - 1) |-> [j \in 1..(2 * r - 1) |-> 1]]

\* the mask of the sample: None for r = 1
sample_mask(r, use_sample_circle) ==
    IF r = 1 THEN None
    ELSE IF use_sample_circle THEN circle_mask(r) ELSE square_mask(r)

RECURSIVE IntSum(_)
IntSum(s) == IF s = <<>> THEN 0 ELSE s[1] + IntSum(Tail(s))

\* mask_2d.sum() for the circle, d**2 for the square, 1 for r = 1
sample_mask_sum(r, use_sample_circle) ==
    IF r = 1 THEN 1
    ELSE IF use_sample_circle
         THEN LET m == circle_mask(r) IN IntSum([i \in 1..Len(m) |-> IntSum(m[i])])
         ELSE (2 * r - 1) * (2 * r - 1)

\* pixel_slice = pixels[x_top:x_top + diameter, y_top:y_top + diameter] of the
\* masked branch of pick_color
pixel_slice(uv, pixels, img_width, img_height, radius, diameter) ==
    LET x     == RInt(RMul(uv[2], FromInt(img_height))) % img_height
        y     == RInt(RMul(uv[1], FromInt(img_width))) % img_width
        x_top == (x + 1 - radius) % img_height
        y_top == (y + 1 - radius) % img_width
        rows  == Slice(pixels, x_top, x_top + diameter)
    IN  [i \in 1..Len(rows) |-> Slice(rows[i], y_top, y_top + diameter)]

\* (the parameters mask and mask_sum are named sample and sample_sum here)
\* the result is the colour, or <<"ValueError">> when mask * pixel_slice cannot
\* be broadcast because the slice was cut by the end of the array
pick_color(uv, pixels, img_width, img_height, radius, diameter, sample, sample_sum) ==
    LET x == RInt(RMul(uv[2], FromInt(img_height))) % img_height
        y == RInt(RMul(uv[1], FromInt(img_width))) % img_width
    IN  IF sample = None
        THEN pixels[x + 1][y + 1]
        ELSE LET pslice == pixel_slice(uv, pixels, img_width, img_height, radius, diameter)
                 full   == /\ Len(pslice) = diameter
                           /\ \A i \in 1..Len(pslice) : Len(pslice[i]) = diameter
                 chan(c) == RSum([k \in 1..(diameter * diameter) |->
                               LET i == ((k - 1) \div diameter) + 1
                                   j == ((k - 1) % diameter) + 1
                               IN  RMul(FromInt(sample[i][j]), pslice[i][j][c])])
             IN  IF ~full THEN <<"ValueError">>
                 ELSE [c \in 1..4 |-> RDiv(chan(c), FromInt(sample_sum))]

PickIdle ==
    /\ p_uv = <<>> /\ p_width = 0 /\ p_height = 0 /\ p_radius = 0
    /\ p_circle = FALSE /\ p_slice = <<>> /\ p_out = <<>>

UVs == {Rat(k, UvDen) : k \in (-UvMax)..UvMax}

\* the arguments execute can pass: an image with pixels and a radius that
\* passed the "Sample radius too large" test
InitPick ==
    /\ p_width \in 1..MaxDim
    /\ p_height \in 1..MaxDim
    /\ p_radius \in 1..MaxRadius
    /\ ~radius_too_large(p_radius, p_width, p_height)
    /\ p_circle \in BOOLEAN
    /\ p_uv \in UVs \X UVs
    /\ p_slice = <<>>
    /\ p_out = <<>>

CallPickColor ==
    /\ p_width > 0
    /\ p_out = <<>>
    /\ p_out' = pick_color(p_uv, overdraw(ImagePixels(p_width, p_height), p_radius),
                           p_width, p_height, p_radius, 2 * p_radius - 1,
                           sample_mask(p_radius, p_circle),
                           sample_mask_sum(p_radius, p_circle))
    /\ \* the window the masked branch reads; the branch without mask reads none
       p_slice' = IF sample_mask(p_radius, p_circle) = None THEN <<>>
                  ELSE pixel_slice(p_uv, overdraw(ImagePixels(p_width, p_height), p_radius),
                                   p_width, p_height, p_radius, 2 * p_radius - 1)
    /\ UNCHANGED <<p_uv, p_width, p_height, p_radius, p_circle,
                   vecVars, morphVars, bandVars, bakeVars, depthVars, animVars>>

-----------------------------------------------------------------------------
(* blender_baketoweights.py: BakeToWeightsOp.execute *)

\* the loops a mesh is made of: the vertex of the loop and the UV of the
\* loop in the active UV layer; vertex 1 has loops with different UVs
LoopChoices ==
    {[vi |-> 1, uv |-> <<Rat(1, 2), Zero>>],
     [vi |-> 1, uv |-> <<Zero, Rat(1, 2)>>],
     [vi |-> 2, uv |-> <<Rat(1, 2), Rat(1, 2)>>]}

BakeVerts == {c.vi : c \in LoopChoices}

\* the orders in which the loops of a mesh come: a mesh of n loops has the
\* first n loops of a pattern, the pattern starting over after its end
LoopPatterns ==
    LET a == [vi |-> 1, uv |-> <<Rat(1, 2), Zero>>]
        b == [vi |-> 1, uv |-> <<Zero, Rat(1, 2)>>]
        c == [vi |-> 2, uv |-> <<Rat(1, 2), Rat(1, 2)>>]
    IN  {<<a, a, b>>, <<b, a, a>>, <<c, a, b>>, <<a, c, a>>}

LoopsUpTo(n) ==
    {[i \in 1..k |-> pat[((i - 1) % Len(pat)) + 1]] : pat \in LoopPatterns, k \in 0..n}

\* the weight every vertex has in a vertex group that exists before the bake
PriorWeight == Rat(1, 4)

ExistingGroup == [v \in BakeVerts |-> PriorWeight]
NewGroup      == [v \in BakeVerts |-> None]

BakeIdle ==
    /\ wm = <<>> /\ img_size = <<>> /\ obj_kind = "" /\ uv_loops = <<>>
    /\ obj_groups = <<>> /\ obj_active = 0 /\ mask = None /\ mask_sum = 0
    /\ vert_colors = <<>> /\ weights = <<>> /\ bake_writes = <<>>
    /\ k_pc = "idle" /\ k_idx = 0 /\ k_result = "NONE" /\ k_report = ""

InitBake ==
    /\ wm \in [sample_radius : 1..MaxRadius, use_sample_circle : BOOLEAN,
               bands : 1..BakeBands, invert_weights : BOOLEAN,
               overwrite : BOOLEAN]
    /\ \/ /\ img_size = <<BakeDim, BakeDim>>
          /\ obj_kind = "MESH"
          /\ uv_loops \in LoopsUpTo(BakeLoops)
       \/ \* an image without data, an image too small for the radius, an
          \* object that is no mesh, a mesh without UV map
          /\ \/ img_size \in {<<0, 0>>, <<1, 1>>} /\ obj_kind = "MESH"
             \/ img_size = <<BakeDim, BakeDim>> /\ obj_kind \in {"EMPTY", "MESH_NO_UV"}
          /\ uv_loops \in LoopsUpTo(1)
    /\ \E n \in {0, 2} :
          /\ obj_groups = [g \in 1..n |-> ExistingGroup]
          /\ obj_active \in (IF n = 0 THEN {0} ELSE 1..n)
    /\ mask = None /\ mask_sum = 0
    /\ vert_colors = <<>>
    /\ weights = <<>>
    /\ bake_writes = <<>>
    /\ k_pc = "start" /\ k_idx = 0 /\ k_result = "NONE" /\ k_report = ""

\* obj.type; a mesh without UV map is a mesh
obj_type(kind) == IF kind = "MESH_NO_UV" THEN "MESH" ELSE kind

\* weight_val = sum(Vector(vert_colors[loop.index][:3])) / 3.0
weight_val(color) == RDiv(RSum(<<color[1], color[2], color[3]>>), FromInt(3))

\* average_in with the division binding to the new sample only:
\* weights[vi] + weight_val / 2.0
average_in_precedence(ws, vi, val) ==
    IF vi \in DOMAIN ws
    THEN [ws EXCEPT ![vi] = RAdd(ws[vi], RDiv(val, FromInt(2)))]
    ELSE [v \in DOMAIN ws \cup {vi} |-> IF v = vi THEN val ELSE ws[v]]

\* "if vi in weights: weights[vi] = (weights[vi] + weight_val) / 2.0
\*  else: weights[vi] = weight_val"
average_in(ws, vi, val) ==
    IF vi \in DOMAIN ws
    THEN [ws EXCEPT ![vi] = RDiv(RAdd(ws[vi], val), FromInt(2))]
    ELSE [v \in DOMAIN ws \cup {vi} |-> IF v = vi THEN val ELSE ws[v]]

\* the keys of the dict weights in insertion order: the vertices of the loops
\* in the order of their first loop
RECURSIVE first_seen(_)
first_seen(ls) ==
    IF ls = <<>> THEN <<>>
    ELSE LET before == first_seen(SubSeq(ls, 1, Len(ls) - 1))
             vi     == ls[Len(ls)].vi
         IN  IF \E i \in 1..Len(before) : before[i] = vi
             THEN before
             ELSE Append(before, vi)

\* obj.vertex_groups and its active index after "select the active vertex
\* group or create one", and after "Not enough vertex groups, make some more"
groups_after(groups, active, bands) ==
    LET g1  == IF active = 0 THEN Append(groups, NewGroup) ELSE groups
        a1  == IF active = 0 THEN Len(g1) ELSE active
        has == Len(g1) - a1 + 1
        add == IF has < bands THEN bands - has ELSE 0
    IN  [groups |-> g1 \o [k \in 1..add |-> NewGroup], first |-> a1]

\* the vertex_group.add([vi], group_weight, 'REPLACE') calls of the bake, in
\* order: for each vertex of weights, zip(vertex_groups, to_bands(...))
bake_group_writes(ws, order, first, n_groups, bands, invert) ==
    LET n_zip    == Min(n_groups - first + 1, bands)
        banded(v) == to_bands(IF invert THEN RSub(One, ws[v]) ELSE ws[v], bands)
    IN  [k \in 1..(Len(order) * n_zip) |->
            LET v == order[((k - 1) \div n_zip) + 1]
                b == ((k - 1) % n_zip) + 1
            IN  [group |-> first + b - 1, vi |-> v, weight |-> banded(v)[b]]]

BakeToWeightsOp_execute ==
    /\ k_pc = "start"
    /\ \* "Mask - defines the shape of the color picker", built once the image
       \* and the radius have passed their tests, before the objects are visited
       IF \/ img_size[1] = 0 \/ img_size[2] = 0
          \/ radius_too_large(wm.sample_radius, img_size[1], img_size[2])
       THEN UNCHANGED <<mask, mask_sum>>
       ELSE /\ mask' = sample_mask(wm.sample_radius, wm.use_sample_circle)
            /\ mask_sum' = sample_mask_sum(wm.sample_radius, wm.use_sample_circle)
    /\ IF img_size[1] = 0 \/ img_size[2] = 0
       THEN /\ k_report' = "No image data! Image Size = 0"
            /\ k_result' = "CANCELLED"
            /\ k_pc' = "done"
            /\ UNCHANGED <<vert_colors, k_idx>>
       ELSE IF radius_too_large(wm.sample_radius, img_size[1], img_size[2])
       THEN /\ k_report' = "Sample radius too large"
            /\ k_result' = "CANCELLED"
            /\ k_pc' = "done"
            /\ UNCHANGED <<vert_colors, k_idx>>
       ELSE IF obj_type(obj_kind) # "MESH"
       THEN \* "continue", then the end of the loop over the objects
            /\ k_result' = "FINISHED"
            /\ k_pc' = "done"
            /\ UNCHANGED <<vert_colors, k_idx, k_report>>
       ELSE IF obj_kind = "MESH_NO_UV"
       THEN /\ k_report' = "UV Map missing"
            /\ k_result' = "FINISHED"
            /\ k_pc' = "done"
            /\ UNCHANGED <<vert_colors, k_idx>>
       ELSE \* "Walk the UV getting the color of a given loop index"
            /\ vert_colors' =
                  LET r      == wm.sample_radius
                      pixels == overdraw(ImagePixels(img_size[1], img_size[2]), r)
                  IN  [i \in 1..Len(uv_loops) |->
                          pick_color(uv_loops[i].uv, pixels, img_size[1], img_size[2],
                                     r, 2 * r - 1,
                                     mask', mask_sum')]
            /\ k_idx' = 1
            /\ k_pc' = "walk"
            /\ UNCHANGED <<k_report, k_result>>
    /\ UNCHANGED <<wm, img_size, obj_kind, uv_loops, obj_groups, obj_active,
                   weights, bake_writes, vecVars, morphVars, bandVars, pickVars, depthVars, animVars>>

\* one iteration of "for loop in obj.data.loops"
bake_walk_loop ==
    /\ k_pc = "walk"
    /\ k_idx <= Len(uv_loops)
    /\ weights' = average_in(weights, uv_loops[k_idx].vi, weight_val(vert_colors[k_idx]))
    /\ k_idx' = k_idx + 1
    /\ UNCHANGED <<wm, img_size, obj_kind, uv_loops, obj_groups, obj_active,
                   mask, mask_sum, vert_colors, bake_writes, k_pc, k_result, k_report,
                   vecVars, morphVars, bandVars, pickVars, depthVars, animVars>>

\* the vertex groups are chosen or created and the weights written to them
bake_write_groups ==
    /\ k_pc = "walk"
    /\ k_idx > Len(uv_loops)
    /\ LET ga == groups_after(obj_groups, obj_active, wm.bands)
           ws == bake_group_writes(weights, first_seen(uv_loops), ga.first,
                                   Len(ga.groups), wm.bands, wm.invert_weights)
       IN  /\ obj_groups' = apply_writes(ga.groups, ws)
           /\ obj_active' = ga.first
           /\ bake_writes' = ws
    /\ k_result' = "FINISHED"
    /\ k_pc' = "done"
    /\ UNCHANGED <<wm, img_size, obj_kind, uv_loops, mask, mask_sum, vert_colors,
                   weights, k_idx, k_report, vecVars, morphVars, bandVars, pickVars, depthVars, animVars>>

-----------------------------------------------------------------------------
(* convert_sl_snapshot_depth.py *)

U24_MAX == 16777215

\* Python's a // b on integers, b # 0: the floor of the quotient
py_floordiv(a, b) == IF b > 0 THEN a \div b ELSE (-a) \div (-b)

\* Python's min(a, b) and max(a, b) on integers
py_min(a, b) == IF b < a THEN b ELSE a
py_max(a, b) == IF a < b THEN b ELSE a

\* u24_to_u16 without the clamp
u24_to_u16_unclamped(val) == py_floordiv(val, 256)

u24_to_u16(val) == py_min(65535, py_max(py_floordiv(val, 256), 0))

\* the store into bw_data, an array of dtype np.int16: the low 16 bits, signed
to_int16(v) == LET m == v % 65536 IN IF m >= 32768 THEN m - 65536 ELSE m

\* Image.fromarray(bw_data, "I;16"): the 16 bits of each element, unsigned
from_raw_u16(v) == v % 65536

\* (bands[0] << 16) | (bands[1] << 8) | bands[2] of 8-bit channels
mono24(bands) == bands[1] * 65536 + bands[2] * 256 + bands[3]

\* the pixels of the snapshot
PixelSet ==
    {<<0, 0, 0>>, <<255, 255, 255>>, <<128, 0, 0>>, <<0, 128, 0>>,
     <<0, 0, 255>>, <<127, 255, 255>>, <<64, 0, 1>>, <<1, 2, 3>>}

\* the range arguments: k/FracDen, and a fraction below 1/0xFFFFFF
Fractions == {Rat(k, FracDen) : k \in 0..FracDen} \cup {Rat(1, 2 * U24_MAX)}

DepthIdle ==
    /\ range_lower = <<>> /\ range_upper = <<>> /\ img_data = <<>>
    /\ lower_bound = 0 /\ upper_bound = 0 /\ multiplier = 0
    /\ bw_data = <<>> /\ converted = None
    /\ d_pc = "idle" /\ d_idx = 0 /\ d_error = ""

InitDepth ==
    /\ range_lower \in Fractions
    /\ range_upper \in Fractions
    /\ img_data \in UNION {[1..n -> PixelSet] : n \in 1..MaxPixels}
    /\ lower_bound = 0 /\ upper_bound = 0 /\ multiplier = 0
    /\ bw_data = <<>> /\ converted = None
    /\ d_pc = "start" /\ d_idx = 0 /\ d_error = ""

\* main calls convert_to_16bit_mono: the bounds, the multiplier, bw_data
convert_to_16bit_mono_start ==
    /\ d_pc = "start"
    /\ LET lo == RInt(RMul(FromInt(U24_MAX), range_lower))
           up == RInt(RMul(FromInt(U24_MAX), range_upper))
       IN  /\ lower_bound' = lo
           /\ upper_bound' = up
           /\ IF up - lo = 0
              THEN /\ d_error' = "ZeroDivisionError"
                   /\ d_pc' = "done"
                   /\ UNCHANGED <<multiplier, bw_data, d_idx>>
              ELSE /\ multiplier' = py_floordiv(U24_MAX, up - lo)
                   /\ bw_data' = [i \in 1..Len(img_data) |-> 0]
                   /\ d_idx' = 1
                   /\ d_pc' = "pixels"
                   /\ UNCHANGED d_error
    /\ UNCHANGED <<range_lower, range_upper, img_data, converted,
                   vecVars, morphVars, bandVars, pickVars, bakeVars, animVars>>

\* one iteration of the loops over y and x
convert_to_16bit_mono_pixel ==
    /\ d_pc = "pixels"
    /\ d_idx <= Len(img_data)
    /\ bw_data' = [bw_data EXCEPT ![d_idx] =
                      to_int16(u24_to_u16((mono24(img_data[d_idx]) - lower_bound) * multiplier))]
    /\ d_idx' = d_idx + 1
    /\ UNCHANGED <<range_lower, range_upper, img_data, lower_bound, upper_bound,
                   multiplier, converted, d_pc, d_error,
                   vecVars, morphVars, bandVars, pickVars, bakeVars, animVars>>

\* return Image.fromarray(bw_data, "I;16"); main shows or saves the image
convert_to_16bit_mono_return ==
    /\ d_pc = "pixels"
    /\ d_idx > Len(img_data)
    /\ converted' = [i \in 1..Len(bw_data) |-> from_raw_u16(bw_data[i])]
    /\ d_pc' = "done"
    /\ UNCHANGED <<range_lower, range_upper, img_data, lower_bound, upper_bound,
                   multiplier, bw_data, d_idx, d_error,
                   vecVars, morphVars, bandVars, pickVars, bakeVars, animVars>>

-----------------------------------------------------------------------------
(* blender_sl_morph_target_rigging.py: SLMorphTargetAnimation *)

\* offset_z += 0.00005
OffsetStep == Rat(5, 100000)

\* the vertex weights of a mesh without vertex groups
NoWeights == [g \in GroupNames |-> [v \in 1..NumVerts |-> None]]

\* the loops of the selected meshes (one topology): every vertex once, and
\* vertex 0 by a second loop
AnimLoops == [i \in 1..(NumVerts + 1) |-> IF i <= NumVerts THEN i ELSE 1]

\* the shapes of the selected meshes: all vertices at the origin, all at
\* PosMax/UNIT on x (within MAX_MOVEMENT of the origin), all at
\* -(MAX_MOVEMENT + 1) on z (further than MAX_MOVEMENT from both)
AnimShapes ==
    {[v \in 1..NumVerts |-> Vec(0, 0, 0)],
     [v \in 1..NumVerts |-> Vec(PosMax, 0, 0)],
     [v \in 1..NumVerts |-> Vec(0, 0, -((MAX_MOVEMENT + 1) * UNIT))]}

\* the names of n selected objects in the order of context.selected_objects:
\* in the order of the names, or against it
SelectionOrders(n) == {[i \in 1..n |-> i], [i \in 1..n |-> n + 1 - i]}

AnimIdle ==
    /\ orig_selected_objects = <<>> /\ mesh_data = <<>> /\ share_materials = FALSE
    /\ to_weight = <<>> /\ weighted = <<>> /\ linked = <<>> /\ offset_z = <<>>
    /\ iterations = 0 /\ joined = None
    /\ a_pc = "idle" /\ a_result = "NONE" /\ a_report = ""

\* objects are [name, data, z]: data is the index of the mesh in mesh_data, z
\* the z of matrix_world.translation; a mesh is its vertex positions, its
\* loops and the weights of its vertices in the vertex groups
InitAnim ==
    /\ \E n \in 0..MaxSelected :
          /\ \E names \in SelectionOrders(n) :
                orig_selected_objects =
                    [i \in 1..n |-> [name |-> names[i], data |-> i, z |-> Zero]]
          /\ \/ \E shapes \in [1..n -> AnimShapes] :
                   mesh_data = [i \in 1..n |->
                                   [co |-> shapes[i], loops |-> AnimLoops, vw |-> NoWeights]]
             \/ \* the first mesh has a vertex less than the others
                /\ n = 3
                /\ mesh_data = [i \in 1..n |->
                      [co    |-> [v \in 1..(IF i = 1 THEN NumVerts - 1 ELSE NumVerts) |->
                                     Vec(0, 0, 0)],
                       loops |-> AnimLoops, vw |-> NoWeights]]
    /\ share_materials \in BOOLEAN
    /\ to_weight = <<>> /\ weighted = <<>> /\ linked = <<>> /\ offset_z = <<>>
    /\ iterations = 0 /\ joined = None
    /\ a_pc = "start" /\ a_result = "NONE" /\ a_report = ""

\* sorted(objs, key=lambda x: x.name)
RECURSIVE sorted_by_name(_)
sorted_by_name(objs) ==
    IF objs = <<>> THEN <<>>
    ELSE LET rest == sorted_by_name(SubSeq(objs, 1, Len(objs) - 1))
             x    == objs[Len(objs)]
             k    == Cardinality({i \in 1..Len(rest) : rest[i].name <= x.name})
         IN  SubSeq(rest, 1, k) \o <<x>> \o SubSeq(rest, k + 1, Len(rest))

\* copy_to_origin without "new_obj.data = obj.data.copy()": the copy of the
\* object keeps the mesh of the original
copy_to_origin_linked(obj, z, new_data) ==
    [name |-> obj.name, data |-> obj.data, z |-> z]

\* copy_to_origin: the copy of the object, with the copy of the mesh (stored
\* at new_data), at (0, 0, offset_z)
copy_to_origin(obj, z, new_data) ==
    [name |-> obj.name, data |-> new_data, z |-> z]

\* apply_pos_offset_weights(source_obj, target_obj) raises WeightException
pass_raises(src, tgt) ==
    \E i \in 1..Len(tgt.loops) :
        movement_too_great(vec_motion_all_axes(pos_diff(src.co, tgt.co, tgt.loops[i])))

\* the vertex_group.add calls of apply_pos_offset_weights(source_obj,
\* target_obj) from loop i on, up to the end or to the loop that raises
RECURSIVE pass_writes(_, _, _)
pass_writes(src, tgt, i) ==
    IF i > Len(tgt.loops) THEN <<>>
    ELSE LET diff == pos_diff(src.co, tgt.co, tgt.loops[i])
         IN  IF movement_too_great(vec_motion_all_axes(diff)) THEN <<>>
             ELSE loop_writes(tgt.loops[i], diff) \o pass_writes(src, tgt, i + 1)

\* the mesh of target_obj after apply_pos_offset_weights(source_obj, target_obj)
pass_result(src, tgt) ==
    [tgt EXCEPT !.vw = apply_writes(tgt.vw, pass_writes(src, tgt, 1))]

\* bpy.ops.object.join: the meshes of the objects in the space of the first
\* one, vertex after vertex, with their weights
RECURSIVE join_objects(_, _)
join_objects(objects, meshes) ==
    IF objects = <<>> THEN [co |-> <<>>, vw |-> [g \in GroupNames |-> <<>>]]
    ELSE LET before == join_objects(SubSeq(objects, 1, Len(objects) - 1), meshes)
             obj    == objects[Len(objects)]
             m      == meshes[obj.data]
             dz     == RSub(obj.z, objects[1].z)
         IN  [co |-> before.co \o [v \in 1..Len(m.co) |->
                        <<m.co[v][1], m.co[v][2], RAdd(m.co[v][3], dz)>>],
              vw |-> [g \in GroupNames |-> before.vw[g] \o m.vw[g]]]

\* execute up to the while loop
SLMorphTargetAnimation_execute ==
    /\ a_pc = "start"
    /\ IF Len(orig_selected_objects) < 2
       THEN /\ a_report' = "Must have more than one object selected!"
            /\ a_result' = "CANCELLED"
            /\ a_pc' = "done"
            /\ UNCHANGED <<to_weight, offset_z>>
       ELSE IF Len(orig_selected_objects) % 3 # 0
       THEN /\ a_report' = "Number of nodes must be divisible by three!"
            /\ a_result' = "CANCELLED"
            /\ a_pc' = "done"
            /\ UNCHANGED <<to_weight, offset_z>>
       ELSE IF ~validate_object_set({Len(mesh_data[orig_selected_objects[i].data].co) :
                                        i \in 1..Len(orig_selected_objects)})
       THEN /\ a_report' = "Vertex count mismatch between objects"
            /\ a_result' = "CANCELLED"
            /\ a_pc' = "done"
            /\ UNCHANGED <<to_weight, offset_z>>
       ELSE IF share_materials
       THEN /\ a_report' = "Objects must not share materials!"
            /\ a_result' = "CANCELLED"
            /\ a_pc' = "done"
            /\ UNCHANGED <<to_weight, offset_z>>
       ELSE /\ to_weight' = sorted_by_name(orig_selected_objects)
            /\ offset_z' = Zero
            /\ a_pc' = "while"
            /\ UNCHANGED <<a_report, a_result>>
    /\ UNCHANGED <<orig_selected_objects, mesh_data, share_materials, weighted,
                   linked, iterations, joined,
                   vecVars, morphVars, bandVars, pickVars, bakeVars, depthVars>>

\* one iteration of "while to_weight": the two clones, the two passes; a
\* WeightException of a pass leaves execute, which does not catch it
SLMorphTargetAnimation_iteration ==
    /\ a_pc = "while"
    /\ to_weight # <<>>
    /\ LET left        == to_weight[1]
           mid         == to_weight[2]
           right       == to_weight[3]
           left_clone  == copy_to_origin(left, offset_z, Len(mesh_data) + 1)
           right_clone == copy_to_origin(right, offset_z, Len(mesh_data) + 2)
           copied      == mesh_data \o <<mesh_data[left.data], mesh_data[right.data]>>
           after_left  == [copied EXCEPT ![left_clone.data] =
                              pass_result(copied[mid.data], copied[left_clone.data])]
           after_right == [after_left EXCEPT ![right_clone.data] =
                              pass_result(after_left[mid.data], after_left[right_clone.data])]
       IN  /\ linked' = linked \o <<left_clone, right_clone>>
           /\ IF pass_raises(copied[mid.data], copied[left_clone.data])
              THEN /\ mesh_data' = after_left
                   /\ a_result' = "WeightException"
                   /\ a_pc' = "done"
                   /\ UNCHANGED <<weighted, to_weight, offset_z, iterations>>
              ELSE IF pass_raises(after_left[mid.data], after_left[right_clone.data])
              THEN /\ mesh_data' = after_right
                   /\ a_result' = "WeightException"
                   /\ a_pc' = "done"
                   /\ UNCHANGED <<weighted, to_weight, offset_z, iterations>>
              ELSE /\ mesh_data' = after_right
                   /\ weighted' = weighted \o <<left_clone, right_clone>>
                   /\ to_weight' = SubSeq(to_weight, 4, Len(to_weight))
                   /\ offset_z' = RAdd(offset_z, OffsetStep)
                   /\ iterations' = iterations + 1
                   /\ UNCHANGED <<a_result, a_pc>>
    /\ UNCHANGED <<orig_selected_objects, share_materials, joined, a_report,
                   vecVars, morphVars, bandVars, pickVars, bakeVars, depthVars>>

\* join_objects(weighted); return {'FINISHED'}
SLMorphTargetAnimation_join ==
    /\ a_pc = "while"
    /\ to_weight = <<>>
    /\ joined' = join_objects(weighted, mesh_data)
    /\ linked' = <<weighted[1]>>
    /\ a_result' = "FINISHED"
    /\ a_pc' = "done"
    /\ UNCHANGED <<orig_selected_objects, mesh_data, share_materials, to_weight,
                   weighted, offset_z, iterations, a_report,
                   vecVars, morphVars, bandVars, pickVars, bakeVars, depthVars>>

-----------------------------------------------------------------------------
(* Specifications *)

VectorInit == InitVector /\ MorphIdle /\ BandIdle /\ PickIdle /\ BakeIdle /\ DepthIdle /\ AnimIdle

NextVector == CallVectorToWeights

SpecVector == VectorInit /\ [][NextVector]_vars

NextMorph ==
    \/ MorphTargetToSLWeights_execute
    \/ apply_pos_offset_weights_loop
    \/ apply_pos_offset_weights_end

MorphInit == InitMorph /\ VecIdle /\ BandIdle /\ PickIdle /\ BakeIdle /\ DepthIdle /\ AnimIdle

SpecMorph == MorphInit /\ [][NextMorph]_vars

BandsInit == InitBands /\ VecIdle /\ MorphIdle /\ PickIdle /\ BakeIdle /\ DepthIdle /\ AnimIdle

NextBands == CallToBands

SpecBands == BandsInit /\ [][NextBands]_vars

PickInit == InitPick /\ VecIdle /\ MorphIdle /\ BandIdle /\ BakeIdle /\ DepthIdle /\ AnimIdle

NextPick == CallPickColor

SpecPick == PickInit /\ [][NextPick]_vars

BakeInit == InitBake /\ VecIdle /\ MorphIdle /\ BandIdle /\ PickIdle /\ DepthIdle /\ AnimIdle

NextBake ==
    \/ BakeToWeightsOp_execute
    \/ bake_walk_loop
    \/ bake_write_groups

SpecBake == BakeInit /\ [][NextBake]_vars

DepthInit == InitDepth /\ VecIdle /\ MorphIdle /\ BandIdle /\ PickIdle /\ BakeIdle /\ AnimIdle

NextDepth ==
    \/ convert_to_16bit_mono_start
    \/ convert_to_16bit_mono_pixel
    \/ convert_to_16bit_mono_return

SpecDepth == DepthInit /\ [][NextDepth]_vars

AnimInit == InitAnim /\ VecIdle /\ MorphIdle /\ BandIdle /\ PickIdle /\ BakeIdle /\ DepthIdle

NextAnim ==
    \/ SLMorphTargetAnimation_execute
    \/ SLMorphTargetAnimation_iteration
    \/ SLMorphTargetAnimation_join

SpecAnim == AnimInit /\ [][NextAnim]_vars

-----------------------------------------------------------------------------
(* Properties of vector_to_weights (SpecVector) *)

\* |dx| + |dy| + |dz|
L1(c) == RAdd(RAdd(RAbs(c[1]), RAbs(c[2])), RAbs(c[3]))

WithinBudget(c) == RLe(L1(c), FromInt(MAX_MOVEMENT))

VectorDone == v_weights # <<>>

\* C1: for every displacement with |dx|+|dy|+|dz| <= MAX_MOVEMENT, the total
\* equal to MAX_MOVEMENT included, vector_to_weights returns 7 values, none
\* negative, that sum to 1; the 7th (slack) value is never negative.
C1_WeightsNonNegativeSumToOne ==
    (VectorDone /\ WithinBudget(v_coord)) =>
        /\ Len(v_weights) = 7
        /\ \A i \in 1..7 : RLe(Zero, v_weights[i])
        /\ RSum(v_weights) = One
        /\ RLe(Zero, v_weights[7])

\* the boundary case: all three axes move, the total is MAX_MOVEMENT exactly
C1_Witness ==
    /\ VectorDone
    /\ L1(v_coord) = FromInt(MAX_MOVEMENT)
    /\ \A a \in 1..3 : v_coord[a] # Zero
    /\ v_weights[7] = Zero

\* C3: each axis component c goes to its channel pair (+X/-X = 0/1,
\* +Y/-Y = 2/3, +Z/-Z = 4/5): the negative channel receives |c|/MAX_MOVEMENT
\* when c < 0, otherwise the positive channel does, and the other channel of
\* the pair is 0; (2.5, 0, 0) yields (0.5, 0, 0, 0, 0, 0, 0.5).
C3_ChannelSelection ==
    VectorDone =>
        /\ \A a \in 1..3 :
              LET c   == v_coord[a]
                  pos == 2 * (a - 1) + 1
                  neg == 2 * (a - 1) + 2
                  mag == RDiv(RAbs(c), FromInt(MAX_MOVEMENT))
              IN  IF c[1] < 0
                  THEN v_weights[neg] = mag /\ v_weights[pos] = Zero
                  ELSE v_weights[pos] = mag /\ v_weights[neg] = Zero
        /\ v_coord = <<Rat(5, 2), Zero, Zero>> =>
              v_weights = <<Rat(1, 2), Zero, Zero, Zero, Zero, Zero, Rat(1, 2)>>

C3_Witness ==
    /\ v_coord = <<Rat(5, 2), Zero, Zero>>
    /\ v_weights = <<Rat(1, 2), Zero, Zero, Zero, Zero, Zero, Rat(1, 2)>>

\* the channels of axis a that are not zero
NonZeroOfPair(a) == {i \in {2 * (a - 1) + 1, 2 * (a - 1) + 2} : v_weights[i] # Zero}

\* C9 as stated: for every displacement within MAX_MOVEMENT exactly one
\* channel of each axis-sign pair is nonzero.
C9_ExactlyOnePerPair ==
    (VectorDone /\ WithinBudget(v_coord)) =>
        \A a \in 1..3 : Cardinality(NonZeroOfPair(a)) = 1

\* C9 amended: for every displacement within MAX_MOVEMENT at most one channel
\* of each axis-sign pair is nonzero, and exactly one is when the component
\* of that axis is not zero; a zero component leaves both channels at 0.
C9_AtMostOnePerPair ==
    (VectorDone /\ WithinBudget(v_coord)) =>
        \A a \in 1..3 :
            Cardinality(NonZeroOfPair(a)) = IF v_coord[a] = Zero THEN 0 ELSE 1

C9_Witness ==
    /\ VectorDone /\ WithinBudget(v_coord)
    /\ v_coord[1] # Zero /\ v_coord[2] = Zero /\ v_coord[3] # Zero
    /\ Cardinality(NonZeroOfPair(1)) = 1
    /\ Cardinality(NonZeroOfPair(2)) = 0

-----------------------------------------------------------------------------
(* Properties of the morph pass (SpecMorph) *)

BudgetError == m_report = "Vertex movement too great!"

\* C2 as stated: when a vertex reached by the loop iteration moves more than
\* MAX_MOVEMENT, the operation fails with the budget error and no
\* vertex_group.add has been issued in the invocation, for any vertex.
C2_NoWritesOnBudgetError ==
    BudgetError => (m_result = "CANCELLED" /\ writes = <<>>)

\* C2 amended: the operation fails with the budget error at the first loop
\* whose vertex moves more than MAX_MOVEMENT; no vertex_group.add is issued
\* for that vertex or for any later loop, and the 7 writes of each loop before
\* it have been issued and stay.
C2_NoWritesFromOffendingLoop ==
    BudgetError =>
        /\ m_result = "CANCELLED" /\ m_pc = "done"
        /\ m_idx \in 1..Len(loops)
        /\ ~WithinBudget(VecSub(source_co[loops[m_idx]], target_co[loops[m_idx]]))
        /\ \A i \in 1..(m_idx - 1) :
              WithinBudget(VecSub(source_co[loops[i]], target_co[loops[i]]))
        /\ Len(writes) = 7 * (m_idx - 1)
        /\ \A k \in 1..Len(writes) :
              /\ writes[k].vi = loops[((k - 1) \div 7) + 1]
              /\ writes[k].vi # loops[m_idx]

\* the second loop fails after the first one has written its 7 weights
C2_Witness ==
    /\ BudgetError
    /\ m_idx = 2
    /\ Len(writes) = 7
    /\ group_weights["mPelvis"][loops[1]] # None

-----------------------------------------------------------------------------
(* Properties of to_bands (SpecBands) *)

BandsDone == b_out # <<>>

Clamp(x, lo, hi) == IF RLt(x, lo) THEN lo ELSE IF RLt(hi, x) THEN hi ELSE x

\* value * (num_bands - 1)
Scaled == RMul(b_val, FromInt(b_num - 1))

InUnitInterval(x) == RLe(Zero, x) /\ RLe(x, One)

\* C5: to_bands(value, num_bands) returns num_bands values; for num_bands = 1
\* the single value is the input; for num_bands > 1 entry i is
\* 1 - clamp(|value*(num_bands-1) - i|, 0, 1), so that to_bands(0, n)[0] = 1
\* and to_bands(1, n)[n-1] = 1.
C5_TentBands ==
    BandsDone =>
        /\ Len(b_out) = b_num
        /\ b_num = 1 => b_out = <<b_val>>
        /\ b_num > 1 =>
              /\ \A i \in 0..(b_num - 1) :
                    b_out[i + 1] =
                        RSub(One, Clamp(RAbs(RSub(Scaled, FromInt(i))), Zero, One))
              /\ b_val = Zero => b_out[1] = One
              /\ b_val = One => b_out[b_num] = One

\* the last band of three or more is 1 at value 1
C5_Witness ==
    /\ BandsDone /\ b_num > 2 /\ b_val = One
    /\ b_out[b_num] = One /\ b_out[1] = Zero

\* C10 as stated: for num_bands > 1 and value in [0,1] the bands sum to 1
\* only when value*(num_bands-1) is an integer, and differ from 1 otherwise.
C10_SumOneOnlyAtCentres ==
    (BandsDone /\ b_num > 1 /\ InUnitInterval(b_val)) =>
        (RSum(b_out) = One <=> Scaled[2] = 1)

\* C10 amended: for num_bands > 1 the bands sum to 1 for every value in
\* [0,1], on a band centre or between two.
C10_SumOneOnUnitInterval ==
    (BandsDone /\ b_num > 1 /\ InUnitInterval(b_val)) => RSum(b_out) = One

\* a value between two band centres whose bands sum to 1
C10_Witness ==
    /\ BandsDone /\ b_num > 1 /\ InUnitInterval(b_val)
    /\ Scaled[2] # 1
    /\ RSum(b_out) = One

-----------------------------------------------------------------------------
(* Properties of pick_color (SpecPick) *)

PickDone == p_out # <<>>

\* C6: with radius = 1 (no mask) pick_color returns the pixel at
\* row = floor(u2*height) mod height, col = floor(u1*width) mod width of the
\* grid for any UV pair, UVs outside [0,1) and negative UVs included.
C6_DirectLookupFloor ==
    (PickDone /\ p_radius = 1) =>
        p_out = ImagePixels(p_width, p_height)
                    [(RFloor(RMul(p_uv[2], FromInt(p_height))) % p_height) + 1]
                    [(RFloor(RMul(p_uv[1], FromInt(p_width))) % p_width) + 1]

-----------------------------------------------------------------------------
(* Properties of the bake (SpecBake) *)

\* the loops walked so far
Walked == IF k_pc \in {"walk", "done"} /\ k_idx > 0 THEN k_idx - 1 ELSE 0

\* the samples of vertex v in loop order among the loops walked so far: the
\* mean of the first three channels of the colour picked for the loop
SamplesOf(v) ==
    LET idx == SelectSeq([i \in 1..Walked |-> i], LAMBDA i : uv_loops[i].vi = v)
    IN  [j \in 1..Len(idx) |->
            LET c == vert_colors[idx[j]]
            IN  RDiv(RAdd(RAdd(c[1], c[2]), c[3]), FromInt(3))]

RECURSIVE Pow2(_)
Pow2(n) == IF n = 0 THEN 1 ELSE 2 * Pow2(n - 1)

\* running = (running + new) / 2 from the first sample on, unrolled:
\* (s1 + s2 + 2 s3 + ... + 2^(n-2) sn) / 2^(n-1)
Recurrence(ss) ==
    RDiv(RSum([j \in 1..Len(ss) |->
                  IF j = 1 THEN ss[1] ELSE RMul(FromInt(Pow2(j - 2)), ss[j])]),
         FromInt(Pow2(Len(ss) - 1)))

CumulativeMean(ss) == RDiv(RSum(ss), FromInt(Len(ss)))

\* C4: the weight stored for a vertex after walking the loops in loop order
\* is the sample of its first loop, then running = (running + new) / 2 for
\* each later loop of the vertex, each sample being the mean of the first
\* three channels of the sampled colour: an order-dependent recurrence, not
\* the cumulative mean of the samples.
C4_RunningAverage ==
    /\ DOMAIN weights = {uv_loops[i].vi : i \in 1..Walked}
    /\ \A v \in DOMAIN weights : weights[v] = Recurrence(SamplesOf(v))

\* three loops of one vertex walked: the weight is not the mean of the three
\* samples, and the same samples in another order give another weight
C4_Witness ==
    /\ k_pc = "done" /\ k_result = "FINISHED"
    /\ 1 \in DOMAIN weights
    /\ Len(SamplesOf(1)) = 3
    /\ weights[1] # CumulativeMean(SamplesOf(1))
    /\ weights[1] # Recurrence(Reverse(SamplesOf(1)))

-----------------------------------------------------------------------------
(* Properties of the depth codec (SpecDepth) *)

ClampInt(x, lo, hi) == IF x < lo THEN lo ELSE IF x > hi THEN hi ELSE x

\* clamp(((r<<16 | g<<8 | b) - lower) * multiplier // 256, 0, 65535) with
\* lower = floor(0xFFFFFF*lower_frac), upper = floor(0xFFFFFF*upper_frac),
\* multiplier = 0xFFFFFF // (upper - lower)
Expected16(px) ==
    LET lower == RFloor(RMul(FromInt(16777215), range_lower))
        upper == RFloor(RMul(FromInt(16777215), range_upper))
        mult  == 16777215 \div (upper - lower)
        mono  == px[1] * 65536 + px[2] * 256 + px[3]
    IN  ClampInt(((mono - lower) * mult) \div 256, 0, 65535)

\* C7: for 8-bit channels and fractions lower_frac < upper_frac in [0,1] the
\* output for a pixel is clamp((mono24 - lower) * multiplier // 256, 0, 65535)
\* as an unsigned 16-bit value; with range (0.0, 1.0), (255,255,255) yields
\* 65535 and (0,0,0) yields 0.
C7_RangeMapping ==
    (converted # None /\ RLt(range_lower, range_upper)) =>
        /\ Len(converted) = Len(img_data)
        /\ \A i \in 1..Len(converted) :
              /\ converted[i] \in 0..65535
              /\ converted[i] = Expected16(img_data[i])
              /\ (range_lower = Zero /\ range_upper = One) =>
                    /\ img_data[i] = <<255, 255, 255>> => converted[i] = 65535
                    /\ img_data[i] = <<0, 0, 0>> => converted[i] = 0

\* white and black under the range (0.0, 1.0), and a pixel below the range
C7_Witness ==
    /\ converted # None
    /\ range_lower = Zero /\ range_upper = One
    /\ img_data = <<<<255, 255, 255>>, <<0, 0, 0>>>>
    /\ converted = <<65535, 0>>

\* C8: every range with upper_frac <= lower_frac is rejected before any pixel
\* is processed: no output image is produced for it, for upper_frac equal to
\* lower_frac and for upper_frac below it.
C8_InvalidRangeRejected ==
    RLe(range_upper, range_lower) => converted = None

-----------------------------------------------------------------------------
(* Properties of the sample mask (SpecBake) *)

CircleMaskBuilt == mask # None /\ wm.use_sample_circle /\ wm.sample_radius >= 2

ActiveCells == {c \in (1..Len(mask)) \X (1..Len(mask)) : mask[c[1]][c[2]] # 0}

\* C11: the circular mask built for radius r >= 2 is a (2r-1) x (2r-1) grid
\* of 0/1 cells that is point-symmetric, mask[i,j] = mask[2r-2-i, 2r-2-j];
\* its quadrant cell (i,j) is active iff i*i + j*j < r*r - r or the cell is
\* on row 0 or column 0 of the quadrant; mask_sum is the number of active
\* cells of the full mask.
C11_CircleMask ==
    CircleMaskBuilt =>
        LET r == wm.sample_radius
            d == 2 * r - 1
        IN  /\ Len(mask) = d
            /\ \A i \in 1..d : Len(mask[i]) = d
            /\ \A i, j \in 1..d : mask[i][j] \in {0, 1}
            /\ \A i, j \in 0..(d - 1) :
                  mask[i + 1][j + 1] = mask[(2 * r - 2 - i) + 1][(2 * r - 2 - j) + 1]
            /\ \A i, j \in 0..(r - 1) :
                  LET active == i * i + j * j < r * r - r \/ i = 0 \/ j = 0
                  IN  \A si, sj \in {-1, 1} :
                         (mask[r + si * i][r + sj * j] = 1) <=> active
            /\ mask_sum = Cardinality(ActiveCells)

\* radius 3: the four corners of the 5 x 5 mask are off, the other 21 cells on
C11_Witness ==
    /\ CircleMaskBuilt
    /\ wm.sample_radius = 3
    /\ mask[1][1] = 0 /\ mask[1][2] = 1 /\ mask[3][3] = 1
    /\ mask_sum = 21

-----------------------------------------------------------------------------
(* Properties of the morph pass (SpecMorph) *)

\* apply_pos_offset_weights has returned and execute has returned FINISHED
PassCompleted == m_pc = "done" /\ m_result = "FINISHED"

\* C12: after a morph pass completes without error every vertex of the target
\* mesh, whether or not a loop references it, carries in the channels
\* mHipLeft, mHipRight, mHindLimb1Left, mHindLimb1Right, mTail1, mGroin,
\* mPelvis, in that order, the 7 weights of its decomposed displacement; a
\* vertex referenced by several loops carries the same weights as if
\* referenced once.
C12_EveryVertexWritten ==
    PassCompleted =>
        \A v \in 1..Len(target_co) :
            \A k \in 1..Len(VERTEX_GROUP_NAMES) :
                group_weights[VERTEX_GROUP_NAMES[k]][v]
                    = vector_to_weights(pos_diff(source_co, target_co, v))[k]

\* C13: the displacement decomposed for the vertex of a loop is
\* target position - source position, the target being the mesh whose
\* channels are written: each write carries the weight of that vector.
C13_TargetMinusSource ==
    \A n \in 1..Len(writes) :
        LET c  == ((n - 1) % Len(VERTEX_GROUP_NAMES)) + 1
            vi == writes[n].vi
        IN  writes[n].weight
              = vector_to_weights(VecSub(target_co[vi], source_co[vi]))[c]

\* C13 amended: the displacement decomposed for the vertex of loop i is
\* source position - target position, the target being the mesh whose
\* channels are written (the active object) and the source the other
\* selected object: the 7 writes of loop i go to the 7 channels in order,
\* for the vertex of the loop, with the weights of that vector.
C13_SourceMinusTarget ==
    /\ Len(writes) % Len(VERTEX_GROUP_NAMES) = 0
    /\ \A i \in 1..(Len(writes) \div Len(VERTEX_GROUP_NAMES)) :
          LET vi == loops[i]
              w  == vector_to_weights(VecSub(source_co[vi], target_co[vi]))
          IN  \A c \in 1..Len(VERTEX_GROUP_NAMES) :
                 LET n == (i - 1) * Len(VERTEX_GROUP_NAMES) + c
                 IN  /\ writes[n].vi = vi
                     /\ writes[n].group = VERTEX_GROUP_NAMES[c]
                     /\ writes[n].weight = w[c]

\* a pass has written the weights of a vertex whose source lies at +x of the
\* target: the weight lands in the channel of +x, not in the channel of -x
C13_Witness ==
    /\ PassCompleted
    /\ \E n \in 1..Len(writes) :
          LET vi == writes[n].vi
          IN  /\ source_co[vi] = Vec(PosMax, 0, 0)
              /\ target_co[vi] = Vec(0, 0, 0)
              /\ vector_to_weights(VecSub(source_co[vi], target_co[vi]))
                   # vector_to_weights(VecSub(target_co[vi], source_co[vi]))

-----------------------------------------------------------------------------
(* Properties of the channel choice of the bake (SpecBake) *)

\* C14: the overwrite option decides which channels receive the band weights
\* of a mesh that has an active channel: with the option on the writes go to
\* the active channel and the channels after it; with the option off they go
\* to channels appended after the existing ones, which keep their weights.
C14_OverwriteDecidesChannels ==
    [][(k_pc = "walk" /\ k_pc' = "done" /\ obj_active # 0 /\ bake_writes' # <<>>) =>
          IF wm.overwrite
          THEN \A n \in 1..Len(bake_writes') :
                  bake_writes'[n].group \in obj_active..(obj_active + wm.bands - 1)
          ELSE /\ \A n \in 1..Len(bake_writes') :
                     bake_writes'[n].group > Len(obj_groups)
               /\ \A g \in 1..Len(obj_groups) : obj_groups'[g] = obj_groups[g]]_vars

-----------------------------------------------------------------------------
(* Properties of the window of pick_color (SpecPick) *)

\* C15: for a radius r >= 2 and an image that passed the test
\* (2r-1) - 1 <= width, height, and any UV, the window pick_color reads from
\* the extended grid is a full (2r-1) x (2r-1) block and its cell (a,b) is
\* the pixel ((row+1-r+a) mod height, (col+1-r+b) mod width) of the image,
\* row and col being the cell the UV selects.
C15_WindowIsToroidalNeighbourhood ==
    (PickDone /\ p_radius >= 2) =>
        LET d   == 2 * p_radius - 1
            row == RInt(RMul(p_uv[2], FromInt(p_height))) % p_height
            col == RInt(RMul(p_uv[1], FromInt(p_width))) % p_width
            img == ImagePixels(p_width, p_height)
        IN  /\ Len(p_slice) = d
            /\ \A a \in 1..Len(p_slice) : Len(p_slice[a]) = d
            /\ p_out # <<"ValueError">>
            /\ \A a, b \in 0..(d - 1) :
                  p_slice[a + 1][b + 1]
                    = img[((row + 1 - p_radius + a) % p_height) + 1]
                         [((col + 1 - p_radius + b) % p_width) + 1]

\* radius 3 on an image 4 high: the window of 5 rows goes once around the
\* image, its last row being its first row again, read from the appended rows
C15_Witness ==
    /\ PickDone
    /\ p_radius = 3 /\ p_height = 4 /\ p_width = 5
    /\ Len(p_slice) = 5
    /\ p_slice[5][1] = p_slice[1][1]
    /\ p_slice[1][1] # p_slice[2][1]
    /\ RLt(p_uv[1], Zero)

-----------------------------------------------------------------------------
(* Properties of the animation batching (SpecAnim) *)

AnimDone == a_pc = "done"

NumSelected == Len(orig_selected_objects)

\* the selection passes the two tests of its size
SizeAccepted == NumSelected >= 2 /\ NumSelected % 3 = 0

SameTopology ==
    \A i, j \in 1..NumSelected :
        Len(mesh_data[orig_selected_objects[i].data].co)
            = Len(mesh_data[orig_selected_objects[j].data].co)

\* the mesh of the j-th selected object in the order of the names
MeshByName(j) ==
    mesh_data[(CHOOSE o \in {orig_selected_objects[i] : i \in 1..NumSelected} :
                   o.name = j).data]

\* iteration t (from 0) takes the objects 3t+1, 3t+2, 3t+3 of the order of
\* the names as left, mid, right; side is 1 for left and 3 for right
SideMesh(t, side) == MeshByName(3 * t + side)
MidMesh(t) == MeshByName(3 * t + 2)

\* the clone of a side of iteration t is the side's mesh carrying, for every
\* vertex, the 7 weights of mid - side in the 7 channels
CloneIsWeighted(clone, t, side) ==
    LET m == mesh_data[clone.data]
    IN  /\ clone.z = RMul(FromInt(t), OffsetStep)
        /\ m.co = SideMesh(t, side).co
        /\ \A v \in 1..Len(m.co) : \A c \in 1..Len(VERTEX_GROUP_NAMES) :
              m.vw[VERTEX_GROUP_NAMES[c]][v]
                = vector_to_weights(VecSub(MidMesh(t).co[v], SideMesh(t, side).co[v]))[c]

OriginalsUnchanged ==
    \A i \in 1..NumSelected : mesh_data[orig_selected_objects[i].data].vw = NoWeights

\* k iterations have run, each with its two weighted clones at t * 0.00005
RanAllIterations(k) ==
    /\ iterations = k
    /\ Len(weighted) = 2 * k
    /\ \A t \in 0..(k - 1) :
          /\ CloneIsWeighted(weighted[2 * t + 1], t, 1)
          /\ CloneIsWeighted(weighted[2 * t + 2], t, 3)

RejectedBeforeAnyClone ==
    /\ a_result = "CANCELLED"
    /\ linked = <<>> /\ weighted = <<>>
    /\ Len(mesh_data) = NumSelected

IterationRaises(t) ==
    \E side \in {1, 3} : \E v \in 1..Len(MidMesh(t).co) :
        ~WithinBudget(VecSub(MidMesh(t).co[v], SideMesh(t, side).co[v]))

=============================================================================
